---------------------------- MODULE Spec2Model ----------------------------
(***************************************************************************)
(* A model of app.py, the Streamlit house-price predictor.                 *)
(*                                                                         *)
(* One process serves several browser sessions.  Every interaction of a    *)
(* session reruns the whole script top to bottom.  The two pickled         *)
(* artifacts are loaded through st.cache_resource, which is shared by all  *)
(* the sessions of the process.  The model object is opaque to the script: *)
(* it is used only through predict and feature_importances_.               *)
(*                                                                         *)
(* Units.  Money is counted in 1/PriceResolution of a dollar, so that the  *)
(* rounding done by the "{:,.0f}" format is visible.  Bathrooms are        *)
(* counted in halves (the slider's step).  Importances are counted in      *)
(* thousandths, so that 1000 is the float 1.0.                             *)
(***************************************************************************)
EXTENDS Integers, Sequences, FiniteSets, TLC

\* ------------------------------------------------------------- bounds

\* Money is modelled in 1/PriceResolution dollars.
PriceResolution == 4
\* SpecRank: feature lists and importance arrays of length up to MaxFeatures.
MaxFeatures == 3
\* SpecRank: importances take the MaxImp + 1 values 0, 1000/MaxImp, ..., 1000.
MaxImp == 2

\* ------------------------------------------------------ configuration

MODEL_STD_DEV == 19013

Sessions == {1, 2}

Neighborhoods == {"Average Area", "Good Area", "Premium Area"}

\* The data-frame columns of prepare_input, in dict insertion order.
InputColumns ==
    << "BedroomAbvGr", "TotalBathrooms", "TotalArea", "HouseAge",
       "OverallQual", "GarageCars", "Neighborhood_encoded" >>

\* ------------------------------------------------------------ helpers

Range(f) == { f[i] : i \in DOMAIN f }

\* The position of name n in sequence q (0 when absent).
IndexOf(q, n) ==
    IF \E i \in DOMAIN q : q[i] = n
    THEN CHOOSE i \in DOMAIN q : q[i] = n /\ \A j \in 1..(i-1) : q[j] # n
    ELSE 0

\* format(x, ",.0f"): x, given in 1/PriceResolution dollars, rounded to whole
\* dollars, a tie going to the even neighbour (Python rounds the exact value
\* of the float half to even).
FormatDollars(x) ==
    LET d == x \div PriceResolution
        r == x % PriceResolution
    IN  IF 2 * r < PriceResolution THEN d
        ELSE IF 2 * r > PriceResolution THEN d + 1
        ELSE IF d % 2 = 0 THEN d ELSE d + 1

\* One element on the page of a session.
El(kind, text, x, y) == [kind |-> kind, text |-> text, x |-> x, y |-> y]

\* ---------------------------------------------------- artifacts on disk

\* What pickle.load yields for no model (the script's None).
NoneModel ==
    [kind |-> "none", cols |-> << >>, by_name |-> FALSE, max_area |-> 0,
     has_imps |-> FALSE, imps |-> << >>]

\* A predictor fitted on columns cols.  by_name: it validates the column
\* names of its input (otherwise only their number).  max_area: it rejects
\* a TotalArea above this.  imps: feature_importances_, when it has them.
Predictor(cols, by_name, max_area, has_imps, imps) ==
    [kind |-> "predictor", cols |-> cols, by_name |-> by_name,
     max_area |-> max_area, has_imps |-> has_imps, imps |-> imps]

File(status, obj) == [status |-> status, obj |-> obj]

SwappedColumns ==
    << "TotalBathrooms", "BedroomAbvGr", "TotalArea", "HouseAge",
       "OverallQual", "GarageCars", "Neighborhood_encoded" >>

ShortColumns ==
    << "BedroomAbvGr", "TotalBathrooms", "TotalArea", "HouseAge",
       "OverallQual", "GarageCars" >>

\* Normalised importances with one tie (positions 2 and 4).
TrainedImportances == << 50, 80, 300, 80, 400, 60, 30 >>

\* Importances that are counts, not fractions (as a boosted-tree library
\* reports split counts).
CountImportances == << 12000, 8000, 30000, 4000, 9000, 6000, 3000 >>

AreaLimit == 20000

ModelFiles ==
    { File("missing", NoneModel),
      File("corrupt", NoneModel),
      File("ok", Predictor(InputColumns, TRUE, AreaLimit, TRUE, TrainedImportances)),
      File("ok", Predictor(InputColumns, TRUE, 10000, TRUE, TrainedImportances)),
      File("ok", Predictor(InputColumns, TRUE, AreaLimit, FALSE, << >>)),
      File("ok", Predictor(InputColumns, FALSE, AreaLimit, TRUE, CountImportances)),
      File("ok", Predictor(SwappedColumns, TRUE, AreaLimit, TRUE, TrainedImportances)),
      File("ok", Predictor(SwappedColumns, FALSE, AreaLimit, TRUE, TrainedImportances)) }

FeatureFiles ==
    { File("missing", << >>),
      File("corrupt", << >>),
      File("ok", << >>),
      File("ok", InputColumns),
      File("ok", SwappedColumns),
      File("ok", ShortColumns) }

\* The weights of the predictors considered, per fitted column, in
\* 1/PriceResolution dollars per unit of the column.
Coef(col) ==
    CASE col = "BedroomAbvGr"         -> 20000
      [] col = "TotalBathrooms"       -> 6002
      [] col = "TotalArea"            -> 200
      [] col = "HouseAge"             -> 0 - 1201
      [] col = "OverallQual"          -> 40000
      [] col = "GarageCars"           -> 16000
      [] col = "Neighborhood_encoded" -> 8000
      [] OTHER                        -> 0

Intercept == 80000

RECURSIVE Dot(_, _, _)
Dot(cols, row, i) ==
    IF i = 0 THEN 0 ELSE Coef(cols[i]) * row[i] + Dot(cols, row, i - 1)

\* model.predict(input_df)[0]: [raised |-> TRUE] or the price.  A predictor
\* that validates names raises on any difference of names or order; one that
\* does not reads the row by position.
ModelPredict(m, df) ==
    IF m.kind = "none" THEN [raised |-> TRUE, value |-> 0]
    ELSE IF m.by_name /\ df.cols # m.cols THEN [raised |-> TRUE, value |-> 0]
    ELSE IF Len(df.cols) # Len(m.cols) THEN [raised |-> TRUE, value |-> 0]
    ELSE IF \E i \in DOMAIN df.cols :
               df.cols[i] = "TotalArea" /\ df.row[i] > m.max_area
         THEN [raised |-> TRUE, value |-> 0]
    ELSE [raised |-> FALSE,
          value |-> Intercept + Dot(m.cols, df.row, Len(m.cols))]


\* ------------------------------------------------------ pure functions

\* neighborhood_map with a mistyped code for the last choice.
neighborhood_map_typo ==
    [n \in Neighborhoods |->
        CASE n = "Average Area" -> 5
          [] n = "Good Area"    -> 10
          [] n = "Premium Area" -> 20]

\* neighborhood_map of the form.
neighborhood_map ==
    [n \in Neighborhoods |->
        CASE n = "Average Area" -> 5
          [] n = "Good Area"    -> 10
          [] n = "Premium Area" -> 15]

\* prepare_input with the first two keys of the dict written the other way round.
prepare_input_reordered(bedrooms, bathrooms, area, age, quality, garage, neighborhood_encoded) ==
    [cols |-> << "TotalBathrooms", "BedroomAbvGr", "TotalArea", "HouseAge",
                 "OverallQual", "GarageCars", "Neighborhood_encoded" >>,
     row  |-> << bathrooms, bedrooms, area, age, quality, garage,
                 neighborhood_encoded >>]

\* prepare_input: a one-row data frame; its columns are the keys of the dict
\* literal, in the order they are written.
prepare_input(bedrooms, bathrooms, area, age, quality, garage, neighborhood_encoded) ==
    [cols |-> InputColumns,
     row  |-> << bedrooms, bathrooms, area, age, quality, garage,
                 neighborhood_encoded >>]

\* A frame built by pairing the two columns up to the shorter one.
ImportanceFrame_zip(names, imps) ==
    [raised |-> FALSE,
     rows |-> [i \in 1..(IF Len(names) < Len(imps) THEN Len(names) ELSE Len(imps)) |->
                 [Feature |-> names[i], Importance |-> imps[i]]]]

\* pd.DataFrame({'Feature': names, 'Importance': imps}): the rows, or a
\* ValueError when the two columns differ in length.
ImportanceFrame(names, imps) ==
    IF Len(names) # Len(imps)
    THEN [raised |-> TRUE, rows |-> << >>]
    ELSE [raised |-> FALSE,
          rows |-> [i \in 1..Len(names) |->
                      [Feature |-> names[i], Importance |-> imps[i]]]]

\* The orders a sort of rows I of df by the key, largest first, can produce:
\* every next row is one of the largest left.
RECURSIVE Descending(_, _)
Descending(df, I) ==
    IF I = {} THEN { << >> }
    ELSE LET top == { i \in I : \A j \in I : df[j].Importance <= df[i].Importance }
         IN  UNION { { << df[i] >> \o t : t \in Descending(df, I \ {i}) } : i \in top }

\* The orders of a sort smallest first.
RECURSIVE Ascending(_, _)
Ascending(df, I) ==
    IF I = {} THEN { << >> }
    ELSE LET low == { i \in I : \A j \in I : df[i].Importance <= df[j].Importance }
         IN  UNION { { << df[i] >> \o t : t \in Ascending(df, I \ {i}) } : i \in low }

\* sort_values without ascending=False.
SortValues_ascending(df) == Ascending(df, DOMAIN df)

\* df.sort_values('Importance', ascending=False).reset_index(drop=True).
\* The sort is called with the default kind, quicksort, which pandas
\* documents as not stable: rows of equal importance come out in any order.
SortValues(df) == Descending(df, DOMAIN df)

\* st.progress(value): a float outside [0.0, 1.0] raises.
ProgressRaises(imp) == imp < 0 \/ imp > 1000

\* The result elements with the range written from the estimate itself
\* instead of the lower bound.
ResultElements_range_from_price(price, lower, upper) ==
    << El("success", "Prediction Results", 0, 0),
       El("metric", "Predicted Price", FormatDollars(price), 0),
       El("metric", "Confidence Interval", MODEL_STD_DEV, 0),
       El("info", "Expected Price Range", FormatDollars(price), FormatDollars(upper)) >>

\* The result elements without the two metrics and the range.
ResultElements_banner_only(price, lower, upper) ==
    << El("success", "Prediction Results", 0, 0) >>

\* The elements lines 94-116 put on the page.
ResultElements(price, lower, upper) ==
    << El("success", "Prediction Results", 0, 0),
       El("metric", "Predicted Price", FormatDollars(price), 0),
       El("metric", "Confidence Interval", MODEL_STD_DEV, 0),
       El("info", "Expected Price Range", FormatDollars(lower), FormatDollars(upper)) >>

\* The guard without its test of the feature names.
GuardPasses_model_only(m, names) == ~ (m.kind = "none")

\* The condition of the startup guard: the script goes on.
GuardPasses(m, names) == ~ (m.kind = "none" \/ names = << >>)

\* The prediction block entered on every run.
AfterForm_always(sub) == "predict"

\* Where the script goes after the form: into the try block, or past it.
AfterForm(sub) == IF sub THEN "predict" ELSE "about"

\* An except clause that ends the run after its message.
AfterExcept_stop == "idle"

\* Where the script goes after the except clause has shown its message.
AfterExcept == "about"

\* load_model / load_feature_names without the cache: the value returned
\* and the st.error message shown ("" for none).
load_model(file) ==
    CASE file.status = "ok"      -> [value |-> file.obj, msg |-> ""]
      [] file.status = "missing" -> [value |-> NoneModel, msg |-> "Model file not found"]
      [] OTHER                   -> [value |-> NoneModel, msg |-> "An error occurred while loading the model"]

load_feature_names(file) ==
    CASE file.status = "ok"      -> [value |-> file.obj, msg |-> ""]
      [] file.status = "missing" -> [value |-> << >>, msg |-> "Feature names file not found"]
      [] OTHER                   -> [value |-> << >>, msg |-> "An error occurred while loading feature names"]

\* A cache that keeps nothing: every call finds no entry.
CacheStore_nothing(entry) == [loaded |-> FALSE, entry |-> entry]

\* st.cache_resource: the cache entry after a call that found none.
CacheStore(entry) == [loaded |-> TRUE, entry |-> entry]

\* The messages a (cached or fresh) call shows on the calling page.
Shown(entry) == IF entry.msg = "" THEN << >> ELSE << El("error", entry.msg, 0, 0) >>

\* --------------------------------------------------------------- state

VARIABLES
    modelFile,        \* house_price_model.pkl on disk
    featFile,         \* feature_names.pkl on disk
    modelCache,       \* st.cache_resource entry of load_model(MODEL_PATH)
    featCache,        \* st.cache_resource entry of load_feature_names(FEATURES_PATH)
    modelReads,       \* times the model file was opened
    featReads,        \* times the feature file was opened
    pc,               \* per session: where its script run is ("idle": none running)
    submitted,        \* per session: the form_submit_button value of this run
    widgets,          \* per session: the values of the seven form widgets
    model,            \* per session: the script's global of that name
    feature_names,
    neighborhood_encoded,
    input_df,
    predicted_price,
    lower_bound,
    upper_bound,
    importance_df,
    idx,              \* rows of importance_df the loop has passed
    screen,           \* per session: the elements on its page, in order
    predictCalls,     \* per session: calls of model.predict in this run
    raised_at,        \* per session: the statement of the try block that raised
    failed_before     \* per session: an earlier run ended in the except clause

shared == << modelFile, featFile, modelCache, featCache, modelReads, featReads >>
locals == << model, feature_names, neighborhood_encoded, input_df,
             predicted_price, lower_bound, upper_bound, importance_df, idx >>
vars == << shared, locals, pc, submitted, widgets, screen, predictCalls,
           raised_at, failed_before >>

\* Values of the seven form widgets: the defaults, and the two ends of the
\* ranges (bathrooms in halves).
Defaults == [bedrooms |-> 3, bathrooms |-> 4, area |-> 1500, age |-> 10,
             quality |-> 7, garage |-> 2, neighborhood |-> "Good Area"]
AllMin   == [bedrooms |-> 1, bathrooms |-> 1, area |-> 500, age |-> 0,
             quality |-> 1, garage |-> 0, neighborhood |-> "Average Area"]
AllMax   == [bedrooms |-> 10, bathrooms |-> 20, area |-> 20000, age |-> 100,
             quality |-> 10, garage |-> 5, neighborhood |-> "Premium Area"]

FormInputs ==
    { Defaults, AllMin, AllMax } \cup
    { [Defaults EXCEPT !.neighborhood = n] : n \in Neighborhoods }

NoFrame == [cols |-> << >>, row |-> << >>]
NotLoaded(v) == [loaded |-> FALSE, entry |-> [value |-> v, msg |-> ""]]

InitSessions ==
    /\ pc = [s \in Sessions |-> "idle"]
    /\ submitted = [s \in Sessions |-> FALSE]
    /\ widgets = [s \in Sessions |-> Defaults]
    /\ model = [s \in Sessions |-> NoneModel]
    /\ feature_names = [s \in Sessions |-> << >>]
    /\ neighborhood_encoded = [s \in Sessions |-> 0]
    /\ input_df = [s \in Sessions |-> NoFrame]
    /\ predicted_price = [s \in Sessions |-> 0]
    /\ lower_bound = [s \in Sessions |-> 0]
    /\ upper_bound = [s \in Sessions |-> 0]
    /\ importance_df = [s \in Sessions |-> << >>]
    /\ idx = [s \in Sessions |-> 0]
    /\ screen = [s \in Sessions |-> << >>]
    /\ predictCalls = [s \in Sessions |-> 0]
    /\ raised_at = [s \in Sessions |-> ""]
    /\ failed_before = [s \in Sessions |-> FALSE]

InitCaches ==
    /\ modelCache = NotLoaded(NoneModel)
    /\ featCache = NotLoaded(<< >>)
    /\ modelReads = 0
    /\ featReads = 0

Init ==
    /\ modelFile \in ModelFiles
    /\ featFile \in FeatureFiles
    /\ InitCaches
    /\ InitSessions

\* ------------------------------------------------------------- actions

\* The end of a run: the script's globals are gone.
EndRun(s) ==
    /\ model' = [model EXCEPT ![s] = NoneModel]
    /\ feature_names' = [feature_names EXCEPT ![s] = << >>]
    /\ neighborhood_encoded' = [neighborhood_encoded EXCEPT ![s] = 0]
    /\ input_df' = [input_df EXCEPT ![s] = NoFrame]
    /\ predicted_price' = [predicted_price EXCEPT ![s] = 0]
    /\ lower_bound' = [lower_bound EXCEPT ![s] = 0]
    /\ upper_bound' = [upper_bound EXCEPT ![s] = 0]
    /\ importance_df' = [importance_df EXCEPT ![s] = << >>]
    /\ idx' = [idx EXCEPT ![s] = 0]

\* Lines 14, 56-57: every run starts from an empty page.
StartRun(s, sub) ==
    /\ pc' = [pc EXCEPT ![s] = "load_model"]
    /\ submitted' = [submitted EXCEPT ![s] = sub]
    /\ screen' = [screen EXCEPT ![s] = << El("title", "Smart House Price Predictor", 0, 0) >>]
    /\ predictCalls' = [predictCalls EXCEPT ![s] = 0]
    /\ raised_at' = [raised_at EXCEPT ![s] = ""]
    /\ failed_before' = [failed_before EXCEPT ![s] = failed_before[s] \/ raised_at[s] # ""]
    /\ UNCHANGED << shared, locals >>

\* A page load or a rerun that is not a form submission.
Rerun(s) ==
    /\ pc[s] = "idle"
    /\ StartRun(s, FALSE)
    /\ UNCHANGED widgets

\* The user sets the form's widgets and presses "Predict Price": possible
\* only where the form is on the page.
Submit(s, w) ==
    /\ pc[s] = "idle"
    /\ \E i \in DOMAIN screen[s] : screen[s][i].kind = "form"
    /\ widgets' = [widgets EXCEPT ![s] = w]
    /\ StartRun(s, TRUE)

\* Line 59: model = load_model(MODEL_PATH), through the cache.
LoadModel(s) ==
    /\ pc[s] = "load_model"
    /\ LET hit   == modelCache.loaded
           entry == IF hit THEN modelCache.entry ELSE load_model(modelFile)
       IN  /\ modelCache' = IF hit THEN modelCache ELSE CacheStore(entry)
           /\ modelReads' = IF hit THEN modelReads ELSE modelReads + 1
           /\ model' = [model EXCEPT ![s] = entry.value]
           /\ screen' = [screen EXCEPT ![s] = @ \o Shown(entry)]
    /\ pc' = [pc EXCEPT ![s] = "load_features"]
    /\ UNCHANGED << modelFile, featFile, featCache, featReads, feature_names,
                    neighborhood_encoded, input_df, predicted_price, lower_bound,
                    upper_bound, importance_df, idx, submitted, widgets,
                    predictCalls, raised_at, failed_before >>

\* Line 60: feature_names = load_feature_names(FEATURES_PATH), through the cache.
LoadFeatures(s) ==
    /\ pc[s] = "load_features"
    /\ LET hit   == featCache.loaded
           entry == IF hit THEN featCache.entry ELSE load_feature_names(featFile)
       IN  /\ featCache' = IF hit THEN featCache ELSE CacheStore(entry)
           /\ featReads' = IF hit THEN featReads ELSE featReads + 1
           /\ feature_names' = [feature_names EXCEPT ![s] = entry.value]
           /\ screen' = [screen EXCEPT ![s] = @ \o Shown(entry)]
    /\ pc' = [pc EXCEPT ![s] = "guard"]
    /\ UNCHANGED << modelFile, featFile, modelCache, modelReads, model,
                    neighborhood_encoded, input_df, predicted_price, lower_bound,
                    upper_bound, importance_df, idx, submitted, widgets,
                    predictCalls, raised_at, failed_before >>

\* Lines 62-63: st.stop() ends the run.
Guard(s) ==
    /\ pc[s] = "guard"
    /\ IF GuardPasses(model[s], feature_names[s])
       THEN /\ pc' = [pc EXCEPT ![s] = "form"]
            /\ UNCHANGED locals
       ELSE /\ pc' = [pc EXCEPT ![s] = "idle"]
            /\ EndRun(s)
    /\ UNCHANGED << shared, submitted, widgets, screen, predictCalls,
                    raised_at, failed_before >>

\* Lines 66-85: the form, the neighborhood code, and the test of submitted.
Form(s) ==
    /\ pc[s] = "form"
    /\ screen' = [screen EXCEPT ![s] = @ \o << El("form", "input_form", 0, 0) >>]
    /\ neighborhood_encoded' =
           [neighborhood_encoded EXCEPT ![s] = neighborhood_map[widgets[s].neighborhood]]
    /\ pc' = [pc EXCEPT ![s] = AfterForm(submitted[s])]
    /\ UNCHANGED << shared, model, feature_names, input_df, predicted_price,
                    lower_bound, upper_bound, importance_df, idx, submitted,
                    widgets, predictCalls, raised_at, failed_before >>

\* Lines 88-91: input_df = prepare_input(...); model.predict(input_df)[0].
Predict(s) ==
    /\ pc[s] = "predict"
    /\ LET w  == widgets[s]
           df == prepare_input(w.bedrooms, w.bathrooms, w.area, w.age, w.quality,
                               w.garage, neighborhood_encoded[s])
           r  == ModelPredict(model[s], df)
       IN  /\ input_df' = [input_df EXCEPT ![s] = df]
           /\ predictCalls' = [predictCalls EXCEPT ![s] = @ + 1]
           /\ IF r.raised
              THEN /\ pc' = [pc EXCEPT ![s] = "except"]
                   /\ raised_at' = [raised_at EXCEPT ![s] = "predict"]
                   /\ UNCHANGED predicted_price
              ELSE /\ pc' = [pc EXCEPT ![s] = "results"]
                   /\ predicted_price' = [predicted_price EXCEPT ![s] = r.value]
                   /\ UNCHANGED raised_at
    /\ UNCHANGED << shared, model, feature_names, neighborhood_encoded, lower_bound,
                    upper_bound, importance_df, idx, submitted, widgets, screen,
                    failed_before >>

\* Lines 94-116: the band and the three result elements.
Results(s) ==
    /\ pc[s] = "results"
    /\ LET lower == predicted_price[s] - MODEL_STD_DEV * PriceResolution
           upper == predicted_price[s] + MODEL_STD_DEV * PriceResolution
       IN  /\ lower_bound' = [lower_bound EXCEPT ![s] = lower]
           /\ upper_bound' = [upper_bound EXCEPT ![s] = upper]
           /\ screen' = [screen EXCEPT ![s] =
                           @ \o ResultElements(predicted_price[s], lower, upper)]
    /\ pc' = [pc EXCEPT ![s] = "importance"]
    /\ UNCHANGED << shared, model, feature_names, neighborhood_encoded, input_df,
                    predicted_price, importance_df, idx, submitted, widgets,
                    predictCalls, raised_at, failed_before >>

\* Lines 119-126: the subheader, then the frame of importances, sorted.
Importance(s) ==
    /\ pc[s] = "importance"
    /\ screen' = [screen EXCEPT ![s] = @ \o << El("subheader", "Feature Impact Ranking", 0, 0) >>]
    /\ LET frame == ImportanceFrame(feature_names[s], model[s].imps)
       IN  IF ~ model[s].has_imps
           THEN /\ pc' = [pc EXCEPT ![s] = "except"]
                /\ raised_at' = [raised_at EXCEPT ![s] = "feature_importances_"]
                /\ UNCHANGED << importance_df, idx >>
           ELSE IF frame.raised
           THEN /\ pc' = [pc EXCEPT ![s] = "except"]
                /\ raised_at' = [raised_at EXCEPT ![s] = "DataFrame"]
                /\ UNCHANGED << importance_df, idx >>
           ELSE /\ \E sorted \in SortValues(frame.rows) :
                       importance_df' = [importance_df EXCEPT ![s] = sorted]
                /\ idx' = [idx EXCEPT ![s] = 0]
                /\ pc' = [pc EXCEPT ![s] = IF frame.rows = << >> THEN "about" ELSE "loop"]
                /\ UNCHANGED raised_at
    /\ UNCHANGED << shared, model, feature_names, neighborhood_encoded, input_df,
                    predicted_price, lower_bound, upper_bound, submitted, widgets,
                    predictCalls, failed_before >>

\* Lines 128-130: one pass of the loop over the rows.
Loop(s) ==
    /\ pc[s] = "loop"
    /\ LET row == importance_df[s][idx[s] + 1]
       IN  IF ProgressRaises(row.Importance)
           THEN /\ pc' = [pc EXCEPT ![s] = "except"]
                /\ raised_at' = [raised_at EXCEPT ![s] = "progress"]
                /\ UNCHANGED << screen, idx >>
           ELSE /\ screen' = [screen EXCEPT ![s] =
                               @ \o << El("progress", row.Feature, idx[s] + 1, row.Importance) >>]
                /\ idx' = [idx EXCEPT ![s] = @ + 1]
                /\ pc' = [pc EXCEPT ![s] = IF idx[s] + 1 = Len(importance_df[s])
                                           THEN "about" ELSE "loop"]
                /\ UNCHANGED raised_at
    /\ UNCHANGED << shared, model, feature_names, neighborhood_encoded, input_df,
                    predicted_price, lower_bound, upper_bound, importance_df,
                    submitted, widgets, predictCalls, failed_before >>

\* Lines 132-133: except Exception: st.error(...).
Except(s) ==
    /\ pc[s] = "except"
    /\ screen' = [screen EXCEPT ![s] =
                     @ \o << El("error", "An unexpected prediction error occurred", 0, 0) >>]
    /\ pc' = [pc EXCEPT ![s] = AfterExcept]
    /\ UNCHANGED << shared, locals, submitted, widgets, predictCalls, raised_at,
                    failed_before >>

\* Lines 136-150: the expander and the footer; the run ends.
About(s) ==
    /\ pc[s] = "about"
    /\ screen' = [screen EXCEPT ![s] =
                     @ \o << El("expander", "About This Model", Len(feature_names[s]), 0),
                             El("footer", "M_Fayaz_Khan", 0, 0) >>]
    /\ pc' = [pc EXCEPT ![s] = "idle"]
    /\ EndRun(s)
    /\ UNCHANGED << shared, submitted, widgets, predictCalls, raised_at,
                    failed_before >>

Step(s) ==
    \/ Rerun(s)
    \/ \E w \in FormInputs : Submit(s, w)
    \/ LoadModel(s)
    \/ LoadFeatures(s)
    \/ Guard(s)
    \/ Form(s)
    \/ Predict(s)
    \/ Results(s)
    \/ Importance(s)
    \/ Loop(s)
    \/ Except(s)
    \/ About(s)

Next == \E s \in Sessions : Step(s)

Spec == Init /\ [][Next]_vars

\* -------------------------------------------------- the ranking alone

\* One session, a predictor that accepts the form's record, and every
\* importance array and feature list up to the bounds.
ImpValues == { (i * 1000) \div MaxImp : i \in 0..MaxImp } \cup { 2000 }

ImpArrays == UNION { [1..n -> ImpValues] : n \in 0..MaxFeatures }

RankModelFiles ==
    { File("ok", Predictor(InputColumns, TRUE, AreaLimit, TRUE, a)) : a \in ImpArrays }

RankFeatureFiles ==
    { File("ok", SubSeq(InputColumns, 1, n)) : n \in 1..MaxFeatures }

InitRank ==
    /\ modelFile \in RankModelFiles
    /\ featFile \in RankFeatureFiles
    /\ InitCaches
    /\ InitSessions

NextRank == Step(1)

SpecRank == InitRank /\ [][NextRank]_vars

\* ------------------------------------------------- reading the page

PredictionError == El("error", "An unexpected prediction error occurred", 0, 0)

Has(scr, kind) == \E i \in DOMAIN scr : scr[i].kind = kind

HasPredictionError(scr) == \E i \in DOMAIN scr : scr[i] = PredictionError

IsPrice(e) == e.kind = "metric" /\ e.text = "Predicted Price"
IsBand(e) == e.kind = "info"
IsEntry(e) == e.kind = "progress"

HasEstimate(scr) == \E i \in DOMAIN scr : IsPrice(scr[i])
HasBand(scr) == \E i \in DOMAIN scr : IsBand(scr[i])

\* The ranking entries on a page, in page order.
Entries(scr) == SelectSeq(scr, IsEntry)

\* The artifacts as loaded (the script's globals are gone between runs).
LoadedModel == modelCache.entry.value
LoadedNames == featCache.entry.value

\* The statements of the try block.
InTry == {"predict", "results", "importance", "loop", "except"}

\* ============================================================ claims

\* ---- C1 -----------------------------------------------------------------

\* C1, as claimed: for every feature-name list that passes the startup
\* guard, the columns of the record built by prepare_input are the loaded
\* feature names, same names, same positions, same length.
C1_FieldOrderMatchesLoaded ==
    \A s \in Sessions :
        input_df[s] # NoFrame => input_df[s].cols = feature_names[s]

\* C1, amended: the record always has the same seven columns in the same
\* order, whatever list was loaded, each holding the widget it is named for;
\* so it matches the loaded list exactly when the loaded list is that
\* sequence.
C1_FieldOrderFixed ==
    \A s \in Sessions :
        input_df[s] # NoFrame =>
            LET fixed == << "BedroomAbvGr", "TotalBathrooms", "TotalArea", "HouseAge",
                            "OverallQual", "GarageCars", "Neighborhood_encoded" >>
                w == widgets[s]
            IN  /\ input_df[s].cols = fixed
                /\ input_df[s].row = << w.bedrooms, w.bathrooms, w.area, w.age,
                                        w.quality, w.garage,
                                        neighborhood_encoded[s] >>
                /\ Len(input_df[s].row) = 7
                /\ (input_df[s].cols = feature_names[s]) <=> (feature_names[s] = fixed)

\* C1: a record was built from the largest inputs under a loaded list of the
\* same order.
C1_Witness ==
    \E s \in Sessions :
        /\ pc[s] = "results"
        /\ widgets[s] = AllMax
        /\ input_df[s].cols = feature_names[s]

\* ---- C5 -----------------------------------------------------------------

\* C5: the three neighborhood choices encode to 5, 10 and 15, and the code
\* that reaches prepare_input and the record is always one of these.
C5_NeighborhoodCodes ==
    \A s \in Sessions :
        /\ pc[s] \in InTry \cup {"about"} =>
              /\ widgets[s].neighborhood = "Average Area" => neighborhood_encoded[s] = 5
              /\ widgets[s].neighborhood = "Good Area" => neighborhood_encoded[s] = 10
              /\ widgets[s].neighborhood = "Premium Area" => neighborhood_encoded[s] = 15
              /\ neighborhood_encoded[s] \in {5, 10, 15}
        /\ input_df[s] # NoFrame =>
              /\ input_df[s].row[7] = neighborhood_encoded[s]
              /\ input_df[s].row[7] \in {5, 10, 15}

\* C5: a record was built for the "Premium Area" choice.
C5_Witness ==
    \E s \in Sessions :
        /\ widgets[s].neighborhood = "Premium Area"
        /\ input_df[s] # NoFrame
        /\ input_df[s].row[7] = 15

\* ---- C3 -----------------------------------------------------------------

\* C3: a model file that is missing or does not unpickle yields None, a
\* feature file that is missing or does not unpickle yields the empty list,
\* each with a message on the page; the run then stops at the guard: it
\* never builds the form, never calls model.predict, and ends like any run.
C3_MissingArtifactHalts ==
    \A s \in Sessions :
        /\ (modelFile.status # "ok" /\ pc[s] \in {"load_features", "guard"}) =>
              /\ model[s] = NoneModel
              /\ \E i \in DOMAIN screen[s] :
                    /\ screen[s][i].kind = "error"
                    /\ screen[s][i].text = IF modelFile.status = "missing"
                                           THEN "Model file not found"
                                           ELSE "An error occurred while loading the model"
        /\ (featFile.status # "ok" /\ pc[s] = "guard") =>
              /\ feature_names[s] = << >>
              /\ \E i \in DOMAIN screen[s] :
                    /\ screen[s][i].kind = "error"
                    /\ screen[s][i].text = IF featFile.status = "missing"
                                           THEN "Feature names file not found"
                                           ELSE "An error occurred while loading feature names"
        /\ (modelFile.status # "ok" \/ featFile.status # "ok") =>
              /\ pc[s] \in {"idle", "load_model", "load_features", "guard"}
              /\ ~ Has(screen[s], "form")
              /\ predictCalls[s] = 0
              /\ ~ HasPredictionError(screen[s])
              /\ (pc[s] = "idle" /\ screen[s] # << >>) =>
                    /\ Has(screen[s], "error")
                    /\ ~ Has(screen[s], "expander")
                    /\ ENABLED Rerun(s)

\* C3: a run has stopped at the guard for want of the model file, while the
\* feature names loaded.
C3_Witness ==
    \E s \in Sessions :
        /\ modelFile.status = "missing"
        /\ featFile.status = "ok"
        /\ featFile.obj # << >>
        /\ pc[s] = "idle"
        /\ screen[s] # << >>

\* ---- C6 -----------------------------------------------------------------

\* A session holds its artifacts from these statements on.
HoldsModel == {"load_features", "guard", "form"} \cup InTry \cup {"about"}
HoldsNames == {"guard", "form"} \cup InTry \cup {"about"}

C6_ReadOnce ==
    /\ modelReads <= 1
    /\ featReads <= 1
    /\ modelCache.loaded <=> modelReads = 1
    /\ featCache.loaded <=> featReads = 1
    /\ modelCache.loaded => modelCache.entry = load_model(modelFile)
    /\ featCache.loaded => featCache.entry = load_feature_names(featFile)
    /\ \A s \in Sessions :
          /\ pc[s] \in HoldsModel => modelCache.loaded /\ model[s] = modelCache.entry.value
          /\ pc[s] \in HoldsNames => featCache.loaded /\ feature_names[s] = featCache.entry.value

C6_WriteOnce ==
    /\ modelCache.loaded => modelCache' = modelCache /\ modelReads' = modelReads
    /\ featCache.loaded => featCache' = featCache /\ featReads' = featReads
    /\ modelFile' = modelFile
    /\ featFile' = featFile

\* C6: over every interleaving of the sessions' runs each artifact file is
\* read at most once, by the first call; every later call returns the value
\* that call cached; and no step of any run changes a cached value.
C6_CachedArtifacts == [] C6_ReadOnce /\ [][C6_WriteOnce]_vars

\* C6: two sessions are both past the startup guard on a single read of each
\* file.
C6_Witness ==
    /\ pc[1] = "form"
    /\ pc[2] = "form"
    /\ modelReads = 1
    /\ featReads = 1

\* ---- C9 -----------------------------------------------------------------

PredictionFor(w) ==
    ModelPredict(LoadedModel,
                 prepare_input(w.bedrooms, w.bathrooms, w.area, w.age, w.quality,
                               w.garage, neighborhood_map[w.neighborhood]))

\* C4: an exception raised in the prediction step is caught and shown as a
\* message; the run goes on to its end (the expander and the footer); the
\* form is on the page and can be submitted again; model.predict is not
\* called again by the run; and a submission after failed ones starts clean
\* and shows the estimate of its own inputs.
C4_PredictionErrorRecovered ==
    \A s \in Sessions :
        /\ (raised_at[s] # "" /\ pc[s] \in {"about", "idle"}) =>
              HasPredictionError(screen[s])
        /\ raised_at[s] # "" => pc[s] \in {"except", "about", "idle"}
        /\ predictCalls[s] <= 1
        /\ (pc[s] = "idle" /\ submitted[s]) =>
              /\ Len(screen[s]) >= 2
              /\ screen[s][Len(screen[s])].kind = "footer"
              /\ screen[s][Len(screen[s]) - 1].kind = "expander"
              /\ Has(screen[s], "form")
              /\ \A w \in FormInputs : ENABLED Submit(s, w)
        /\ (pc[s] = "predict") =>
              /\ raised_at[s] = ""
              /\ predictCalls[s] = 0
              /\ ~ HasPredictionError(screen[s])
        /\ (failed_before[s] /\ pc[s] = "idle" /\ submitted[s] /\ raised_at[s] = "") =>
              /\ ~ PredictionFor(widgets[s]).raised
              /\ \E i \in DOMAIN screen[s] :
                    /\ IsPrice(screen[s][i])
                    /\ screen[s][i].x = FormatDollars(PredictionFor(widgets[s]).value)
              /\ ~ HasPredictionError(screen[s])

\* C4: after a failed submission, a later submission of the same session has
\* shown its estimate and no error.
C4_Witness ==
    \E s \in Sessions :
        /\ failed_before[s]
        /\ pc[s] = "idle"
        /\ submitted[s]
        /\ raised_at[s] = ""
        /\ HasEstimate(screen[s])
        /\ Len(Entries(screen[s])) = 7

\* ---- C7 -----------------------------------------------------------------

\* The statement of the try block that raises for widgets w under the
\* loaded artifacts ("" for none).
RaisesAt(w) ==
    IF PredictionFor(w).raised THEN "predict"
    ELSE IF ~ LoadedModel.has_imps THEN "feature_importances_"
    ELSE IF Len(LoadedModel.imps) # Len(LoadedNames) THEN "DataFrame"
    ELSE IF \E i \in DOMAIN LoadedModel.imps : LoadedModel.imps[i] > 1000 THEN "progress"
    ELSE ""

\* C7: model.predict is called only in a run started by a submission, and at
\* most once in it; a run without a submission shows no result and no
\* prediction error; and what a submission's run has shown at its end is
\* settled by its seven inputs and the loaded artifacts alone.
C7_SubmissionOnly ==
    \A s \in Sessions :
        /\ predictCalls[s] <= 1
        /\ predictCalls[s] = 1 => submitted[s]
        /\ pc[s] \in InTry => submitted[s]
        /\ ~ submitted[s] =>
              /\ ~ HasEstimate(screen[s])
              /\ ~ HasBand(screen[s])
              /\ ~ Has(screen[s], "success")
              /\ ~ Has(screen[s], "subheader")
              /\ ~ Has(screen[s], "progress")
              /\ ~ HasPredictionError(screen[s])
              /\ raised_at[s] = ""
        /\ (pc[s] = "idle" /\ submitted[s]) =>
              /\ predictCalls[s] = 1
              /\ raised_at[s] = RaisesAt(widgets[s])
              /\ HasPredictionError(screen[s]) <=> RaisesAt(widgets[s]) # ""
              /\ HasEstimate(screen[s]) <=> ~ PredictionFor(widgets[s]).raised
              /\ \A i \in DOMAIN screen[s] :
                    IsPrice(screen[s][i]) =>
                        screen[s][i].x = FormatDollars(PredictionFor(widgets[s]).value)
              /\ Len(Entries(screen[s])) =
                    IF RaisesAt(widgets[s]) = "" THEN Len(LoadedNames) ELSE 0

\* C7: a run without a submission has ended, with the form on its page,
\* in a session whose earlier submission had failed.
C7_Witness ==
    \E s \in Sessions :
        /\ failed_before[s]
        /\ pc[s] = "idle"
        /\ ~ submitted[s]
        /\ Has(screen[s], "form")
        /\ Has(screen[s], "expander")

\* ---- C10 ----------------------------------------------------------------

\* C10: on a page the estimate and the band come before every ranking entry
\* and the error message after all of them; at the end of a run an error
\* with no estimate is on the page exactly when prepare_input or
\* model.predict raised, and a later failure leaves the estimate and the
\* band on the page with the error.
C10_OutputOrder ==
    \A s \in Sessions :
        LET scr == screen[s]
        IN  /\ \A i \in DOMAIN scr :
                  /\ IsEntry(scr[i]) =>
                        /\ \E k \in 1..(i-1) : IsPrice(scr[k])
                        /\ \E k \in 1..(i-1) : IsBand(scr[k])
                        /\ \E k \in 1..(i-1) : scr[k].kind = "subheader"
                  /\ IsBand(scr[i]) => \E k \in 1..(i-1) : IsPrice(scr[k])
                  /\ scr[i].kind = "subheader" => \E k \in 1..(i-1) : IsBand(scr[k])
                  /\ scr[i] = PredictionError =>
                        \A j \in DOMAIN scr :
                            (IsPrice(scr[j]) \/ IsBand(scr[j]) \/ IsEntry(scr[j])
                               \/ scr[j].kind = "subheader") => j < i
            /\ HasEstimate(scr) <=> HasBand(scr)
            /\ pc[s] \in {"about", "idle"} =>
                  /\ (HasPredictionError(scr) /\ ~ HasEstimate(scr)) <=> raised_at[s] = "predict"
                  /\ raised_at[s] \in {"feature_importances_", "DataFrame", "progress"} =>
                        /\ HasEstimate(scr)
                        /\ HasBand(scr)
                        /\ HasPredictionError(scr)
                  /\ HasPredictionError(scr) <=> raised_at[s] # ""

\* C10: a run has ended with the estimate, the band and the error message on
\* its page, after the frame of importances could not be built.
C10_Witness ==
    \E s \in Sessions :
        /\ pc[s] = "idle"
        /\ raised_at[s] = "DataFrame"
        /\ HasEstimate(screen[s])
        /\ HasBand(screen[s])
        /\ HasPredictionError(screen[s])

\* ---- C2 -----------------------------------------------------------------

\* The entries on the page are the first rows of importance_df, numbered
\* from 1.
EntriesFollow(s) ==
    LET e == Entries(screen[s])
    IN  /\ Len(e) = idx[s]
        /\ \A k \in DOMAIN e :
              /\ e[k].x = k
              /\ e[k].text = importance_df[s][k].Feature
              /\ e[k].y = importance_df[s][k].Importance

\* No smaller importance before a larger one.
NonIncreasing(df) ==
    \A i, j \in DOMAIN df : i < j => df[i].Importance >= df[j].Importance

\* C2, as claimed: the ranking is the feature list stable-sorted descending:
\* no smaller importance before a larger one, and features of equal
\* importance in the order of the loaded feature names.
C2_StableDescending ==
    \A s \in Sessions :
        pc[s] \in {"loop", "about"} =>
            /\ NonIncreasing(importance_df[s])
            /\ \A i, j \in DOMAIN importance_df[s] :
                  (i < j /\ importance_df[s][i].Importance = importance_df[s][j].Importance)
                     => IndexOf(feature_names[s], importance_df[s][i].Feature)
                          < IndexOf(feature_names[s], importance_df[s][j].Feature)

\* C2, amended: the ranking holds every feature once, with its own
\* importance, no smaller importance before a larger one; the entries shown
\* follow it.  (The order among equal importances is not settled.)
C2_Descending ==
    \A s \in Sessions :
        pc[s] \in {"loop", "about"} /\ submitted[s] /\ raised_at[s] = "" =>
            /\ NonIncreasing(importance_df[s])
            /\ Len(importance_df[s]) = Len(feature_names[s])
            /\ \A i \in DOMAIN feature_names[s] :
                  \E k \in DOMAIN importance_df[s] :
                      /\ importance_df[s][k].Feature = feature_names[s][i]
                      /\ importance_df[s][k].Importance = model[s].imps[i]
                      /\ \A l \in DOMAIN importance_df[s] :
                            importance_df[s][l].Feature = feature_names[s][i] => l = k
            /\ EntriesFollow(s)

\* C2: a ranking with two features of equal importance and one of another
\* has been shown in full.
C2_Witness ==
    \E s \in Sessions :
        /\ pc[s] = "about"
        /\ submitted[s]
        /\ raised_at[s] = ""
        /\ Len(importance_df[s]) >= 3
        /\ idx[s] = Len(importance_df[s])
        /\ \E i, j, k \in DOMAIN importance_df[s] :
              /\ i # j
              /\ importance_df[s][i].Importance = importance_df[s][j].Importance
              /\ importance_df[s][k].Importance # importance_df[s][i].Importance

\* ---- C8 -----------------------------------------------------------------

\* C8: every ranking entry on a page is for a name of the loaded list, no
\* name has two entries, and once the ranking has been rendered the entries
\* are as many as the loaded names, one for each.
C8_RankingLength ==
    \A s \in Sessions :
        LET e == Entries(screen[s])
        IN  /\ \A k \in DOMAIN e : e[k].text \in Range(LoadedNames)
            /\ \A k, l \in DOMAIN e : e[k].text = e[l].text => k = l
            /\ Len(e) <= Len(LoadedNames)
            /\ pc[s] = "loop" => Len(importance_df[s]) = Len(feature_names[s])
            /\ (pc[s] \in {"about", "idle"} /\ submitted[s] /\ raised_at[s] = "") =>
                  /\ Len(e) = Len(LoadedNames)
                  /\ \A i \in DOMAIN LoadedNames :
                        \E k \in DOMAIN e : e[k].text = LoadedNames[i]
                  /\ \A k \in DOMAIN e : e[k].x = k

\* C8: a ranking of the longest feature list considered has been rendered.
C8_Witness ==
    \E s \in Sessions :
        /\ pc[s] = "idle"
        /\ submitted[s]
        /\ raised_at[s] = ""
        /\ Len(LoadedNames) = MaxFeatures
        /\ Len(Entries(screen[s])) = MaxFeatures

=============================================================================
